---- MODULE Spec2Model ----
(***************************************************************************)
(* A model of the pomo-oxide timer engine (src/src/main.rs): the AppModel  *)
(* fields, the message channel that feeds AppModel::update, and the tick   *)
(* threads that update spawns.                                             *)
(*                                                                         *)
(* Time is counted in units of 125 ms, so SLEEP_STEP (250 ms) is 2 units   *)
(* and a countdown can end on a partial step.  Durations are scaled down   *)
(* to a few units; sleeping takes an arbitrary amount of scheduler time.   *)
(*                                                                         *)
(* Spec is the program with every message its widgets send.  FairSpec adds *)
(* the scheduling of threads and of the message loop and a user who stops  *)
(* issuing commands.  SpecCycle keeps rest_count fixed and counts the      *)
(* Pomodoros of a rest cycle.  SpecWide delivers every AppMsg value, the    *)
(* ones no widget sends included, to a program whose default sound file is *)
(* absent.  SpecStore starts from any Config the configuration file can    *)
(* hold.  SpecWait keeps account of the delays of cancelled ticks.         *)
(***************************************************************************)
EXTENDS Integers, Sequences, FiniteSets, Bags, TLC

\* ---------------------------------------------------------------- bounds
\* number of permission flags / tick threads that may be alive at once
MaxTicks == 2
\* number of messages that may wait in the component's input channel
MaxQueue == 1
\* cap on pomodoro_count (a usize in the program)
MaxPomodoros == 1
\* largest rest_count an edit may set (the spin button allows 1..20)
MaxRestCount == 2
\* largest phase duration an edit may set, in 125 ms units
MaxDuration == 3

\* ------------------------------------------------------- program constants
\* const SLEEP_STEP: Duration = Duration::from_millis(250), in 125 ms units
SLEEP_STEP == 2

DEFAULT_SOUND == "default.ogg"

\* the largest value of rest_counter and of rest_count, which are u8
U8_MAX == 255

\* the audio files a path may name: the default sound and one the user picks
\* in the file dialog.  Playable are the ones that can be opened when the
\* program runs where its default sound is and the picked file is no audio.
SoundPaths == {DEFAULT_SOUND, "custom.ogg"}
Playable == {DEFAULT_SOUND}

None == "None"

Min(a, b) == IF a <= b THEN a ELSE b

\* impl Default for Config, with the three durations scaled down
\* (25 min, 5 min, 20 min in the program; rest_count is 4 there)
DefaultConfig ==
    [pomodoro_time |-> MaxDuration, break_time |-> 1, rest_time |-> 2,
     rest_count |-> MaxRestCount, sound_path |-> DEFAULT_SOUND]

\* the values the settings popover can put in a duration field: the shortest,
\* which ends within one sleep step, and the longest
Durations == {1, MaxDuration}
RestCounts == 1..MaxRestCount

\* State::duration
duration(st, config) ==
    CASE st = "Pomodoro" -> config.pomodoro_time
      [] st = "Break"    -> config.break_time
      [] st = "Rest"     -> config.rest_time

VARIABLES
    running,          \* AppModel.running
    timer,            \* AppModel.timer
    song,             \* AppModel.song: None or the path of the loaded song
    state,            \* AppModel.state
    rest_counter,     \* AppModel.rest_counter
    pomodoro_count,   \* AppModel.pomodoro_count
    config,           \* AppModel.config
    step_permission,  \* AppModel.step_permission: NoFlag or SomeFlag(flag)
    ticks,            \* the flags that only tick threads still hold
    queue,            \* the component's input channel
    cycle,            \* history: Pomodoros ended in the current rest cycle
    quiet,            \* environment: the user has stopped issuing commands
    files,            \* environment: the audio files Song::from_file can open
    aborted,          \* the process has ended in a panic
    pending,          \* history: the delay of the tick scheduled last
    unwaited          \* history: delays of the ticks cancelled before they fired

vars == <<running, timer, song, state, rest_counter, pomodoro_count, config,
          step_permission, ticks, queue, cycle, quiet, files, aborted,
          pending, unwaited>>

\* what no step of the program itself changes or records outside update
others == <<files, aborted, pending, unwaited>>

\* fn try_song(path) -> Option<Song>
try_song(path) == IF path \in files THEN path ELSE None

\* the AppModel fields the handlers read and write, as one record;
\* played counts the calls of player.play_song_now made by one update
Self ==
    [running |-> running, timer |-> timer, song |-> song, state |-> state,
     rest_counter |-> rest_counter, pomodoro_count |-> pomodoro_count,
     config |-> config, played |-> 0]

\* AppModel::state_duration
state_duration(self) == duration(self.state, self.config)

toggle_ignores_argument(self, arg) == [self EXCEPT !.running = ~self.running]

\* AppModel::toggle; the argument is "None", "Some(true)" or "Some(false)"
toggle(self, arg) ==
    [self EXCEPT !.running =
        CASE arg = "Some(true)"  -> TRUE
          [] arg = "Some(false)" -> FALSE
          [] OTHER               -> ~self.running]

restart_state_always_pomodoro(self) ==
    [self EXCEPT !.timer = self.config.pomodoro_time]

\* AppModel::restart_state
restart_state(self) == [self EXCEPT !.timer = state_duration(self)]

restart_keeps_rest_counter(self) ==
    restart_state([self EXCEPT !.state = "Pomodoro"])

\* AppModel::restart
restart(self) ==
    restart_state([self EXCEPT !.state = "Pomodoro", !.rest_counter = 0])

\* the play of the song in next_state: only when the timer is zero and a
\* song is loaded
play_if_zero(self) ==
    IF self.timer = 0 /\ self.song # None
    THEN [self EXCEPT !.played = @ + 1]
    ELSE self

next_state_counts_at_pomodoro_end(self) ==
    LET moved ==
          IF self.state = "Pomodoro"
          THEN [self EXCEPT
                  !.pomodoro_count = IF self.timer = 0 THEN @ + 1 ELSE @,
                  !.rest_counter = (@ + 1) % self.config.rest_count,
                  !.state = IF self.rest_counter + 1 >= self.config.rest_count
                            THEN "Rest" ELSE "Break"]
          ELSE [self EXCEPT !.state = "Pomodoro"]
    IN  restart_state(play_if_zero(moved))

next_state_rest_one_late(self) ==
    LET moved ==
          IF self.state = "Pomodoro"
          THEN [self EXCEPT
                  !.pomodoro_count = IF self.timer = 0 THEN @ + 1 ELSE @,
                  !.state = IF self.rest_counter + 1 > self.config.rest_count
                            THEN "Rest" ELSE "Break"]
          ELSE [self EXCEPT
                  !.rest_counter = (@ + 1) % self.config.rest_count,
                  !.state = "Pomodoro"]
    IN  restart_state(play_if_zero(moved))

\* AppModel::next_state
next_state(self) ==
    LET moved ==
          IF self.state = "Pomodoro"
          THEN [self EXCEPT
                  !.pomodoro_count = IF self.timer = 0 THEN @ + 1 ELSE @,
                  !.state = IF self.rest_counter + 1 >= self.config.rest_count
                            THEN "Rest" ELSE "Break"]
          ELSE [self EXCEPT
                  !.rest_counter = (@ + 1) % self.config.rest_count,
                  !.state = "Pomodoro"]
    IN  restart_state(play_if_zero(moved))

try_next_state_unconditional(self) == next_state(self)

\* AppModel::try_next_state
try_next_state(self) == IF self.timer = 0 THEN next_state(self) ELSE self

\* the closures sent with AppMsg::ChangeConfig
apply_edit(c, msg) ==
    CASE msg.a = "pomodoro_time" -> [c EXCEPT !.pomodoro_time = msg.n]
      [] msg.a = "break_time"    -> [c EXCEPT !.break_time = msg.n]
      [] msg.a = "rest_time"     -> [c EXCEPT !.rest_time = msg.n]
      [] msg.a = "rest_count"    -> [c EXCEPT !.rest_count = msg.n]
      [] msg.a = "sound_path"    -> [c EXCEPT !.sound_path = msg.p]
      [] msg.a = "default"       -> DefaultConfig

change_config_never_restarts(self, msg) ==
    LET previous_sound_path == self.config.sound_path
        edited == apply_edit(self.config, msg)
        new_song == try_song(edited.sound_path)
        checked ==
          IF previous_sound_path # edited.sound_path
          THEN LET s1 == IF new_song # None
                         THEN [self EXCEPT !.config = edited, !.song = new_song]
                         ELSE [self EXCEPT !.config =
                                 [edited EXCEPT !.sound_path = previous_sound_path]]
               IN  IF s1.song # None THEN [s1 EXCEPT !.played = @ + 1] ELSE s1
          ELSE [self EXCEPT !.config = edited]
    IN  restart_state(checked)

change_config_restarts_when_below(self, msg) ==
    LET previous_sound_path == self.config.sound_path
        edited == apply_edit(self.config, msg)
        new_song == try_song(edited.sound_path)
        checked ==
          IF previous_sound_path # edited.sound_path
          THEN LET s1 == IF new_song # None
                         THEN [self EXCEPT !.config = edited, !.song = new_song]
                         ELSE [self EXCEPT !.config =
                                 [edited EXCEPT !.sound_path = previous_sound_path]]
               IN  IF s1.song # None THEN [s1 EXCEPT !.played = @ + 1] ELSE s1
          ELSE [self EXCEPT !.config = edited]
    IN  IF checked.config.rest_count < checked.rest_counter
        THEN restart(checked)
        ELSE restart_state(checked)

change_config_keeps_bad_path(self, msg) ==
    LET previous_sound_path == self.config.sound_path
        edited == apply_edit(self.config, msg)
        new_song == try_song(edited.sound_path)
        checked ==
          IF previous_sound_path # edited.sound_path
          THEN LET s1 == IF new_song # None
                         THEN [self EXCEPT !.config = edited, !.song = new_song]
                         ELSE [self EXCEPT !.config = edited]
               IN  IF s1.song # None THEN [s1 EXCEPT !.played = @ + 1] ELSE s1
          ELSE [self EXCEPT !.config = edited]
    IN  IF checked.config.rest_count <= checked.rest_counter
        THEN restart(checked)
        ELSE restart_state(checked)

\* AppModel::change_config; saving the config changes no field of AppModel
change_config(self, msg) ==
    LET previous_sound_path == self.config.sound_path
        edited == apply_edit(self.config, msg)
        new_song == try_song(edited.sound_path)
        checked ==
          IF previous_sound_path # edited.sound_path
          THEN LET s1 == IF new_song # None
                         THEN [self EXCEPT !.config = edited, !.song = new_song]
                         ELSE [self EXCEPT !.config =
                                 [edited EXCEPT !.sound_path = previous_sound_path]]
               IN  IF s1.song # None THEN [s1 EXCEPT !.played = @ + 1] ELSE s1
          ELSE [self EXCEPT !.config = edited]
    IN  IF checked.config.rest_count <= checked.rest_counter
        THEN restart(checked)
        ELSE restart_state(checked)

dispatch_renew_restarts(self, msg) ==
    CASE msg.type = "Step"         -> try_next_state(self)
      [] msg.type = "Toggle"       -> toggle(self, msg.a)
      [] msg.type = "Skip"         -> next_state(self)
      [] msg.type = "Renew"        -> restart(self)
      [] msg.type = "Restart"      -> restart(self)
      [] msg.type = "ChangeConfig" -> change_config(self, msg)

\* the match in AppModel::update
dispatch(self, msg) ==
    CASE msg.type = "Step"         -> try_next_state(self)
      [] msg.type = "Toggle"       -> toggle(self, msg.a)
      [] msg.type = "Skip"         -> next_state(self)
      [] msg.type = "Renew"        -> restart_state(self)
      [] msg.type = "Restart"      -> restart(self)
      [] msg.type = "ChangeConfig" -> change_config(self, msg)

\* A permission flag (Arc<AtomicBool>) is a record of its value perm and of
\* the place pc of the thread that shares it: "sleep" before the load of
\* line 290, "send" between a load that returned true and the send of line
\* 291, "done" after the thread has ended.
Flag(perm, pc) == [perm |-> perm, pc |-> pc]

\* Option<Arc<AtomicBool>>: the empty tuple for None, <<flag>> for Some(flag)
NoFlag == <<>>
SomeFlag(flag) == <<flag>>

\* AppModel::clear_step_permission: take() empties step_permission and the
\* flag taken is set to false; a flag whose thread has ended is dropped,
\* another stays with its thread
cleared_flag_not_stored(flag) == flag

cleared_flag(flag) == [flag EXCEPT !.perm = FALSE]

clear_step_permission(sp, tk) ==
    IF sp = NoFlag THEN tk
    ELSE IF sp[1].pc = "done" THEN tk
    ELSE tk (+) SetToBag({cleared_flag(sp[1])})

\* history only: a Step in the channel stops being the current tick's as soon
\* as update handles any message
OutdatedQ(q) == [k \in 1..Len(q) |-> IF q[k] = "Step" THEN "StaleStep" ELSE q[k]]

\* history only: a rest cycle starts at AppModel::new and at every restart,
\* and again when a Rest ends; cycle counts the Pomodoros that ended in it
next_cycle(self, handled, msg) ==
    IF msg.type = "Restart" THEN 0
    ELSE IF self.state = "Pomodoro" /\ handled.state # "Pomodoro" THEN cycle + 1
    ELSE IF self.state = "Rest" /\ handled.state = "Pomodoro" THEN 0
    ELSE cycle

Msg(t, a, n, p) == [type |-> t, a |-> a, n |-> n, p |-> p]

\* the messages the window's widgets and the file dialog send
UserMsgs ==
    {Msg("Ignore", "", 0, ""), Msg("Skip", "", 0, ""), Msg("Renew", "", 0, ""),
     Msg("Restart", "", 0, ""), Msg("Toggle", "None", 0, ""),
     Msg("ChangeConfig", "default", 0, "")}
    \cup {Msg("ChangeConfig", f, d, "") :
            f \in {"pomodoro_time", "break_time", "rest_time"}, d \in Durations}
    \cup {Msg("ChangeConfig", "rest_count", n, "") : n \in RestCounts}
    \cup {Msg("ChangeConfig", "sound_path", 0, p) : p \in SoundPaths}

\* AppModel::new, called from main with the loaded or the default config
Init ==
    /\ files = Playable
    /\ config \in {DefaultConfig,
                   [DefaultConfig EXCEPT !.sound_path = "custom.ogg"]}
    /\ running = FALSE
    /\ state = "Pomodoro"
    /\ timer = duration("Pomodoro", config)
    /\ song = try_song(config.sound_path)
    /\ rest_counter = 0
    /\ pomodoro_count = 0
    /\ step_permission = NoFlag
    /\ ticks = EmptyBag
    /\ queue = <<>>
    /\ cycle = 0
    /\ quiet = FALSE
    /\ aborted = FALSE
    /\ pending = 0
    /\ unwaited = 0

\* sender.input(msg) from a widget or the file dialog.  A widget sends without
\* reading the model, so the channel records the message's place only
\* ("Input") and its variant is drawn when update takes it.
User ==
    /\ ~aborted
    /\ Len(queue) < MaxQueue
    /\ queue' = Append(queue, "Input")
    /\ UNCHANGED <<running, timer, song, state, rest_counter, pomodoro_count,
                   config, step_permission, ticks, cycle, quiet, others>>

\* SLEEP_STEP.min(self.timer), the time the next tick sleeps
sleep_duration_whole_step(t) == SLEEP_STEP

sleep_duration(t) == Min(SLEEP_STEP, t)

\* the AppModel that update leaves when it returns from message msg: the
\* match of lines 269-277, then the decrement of lines 279-281
updated(msg) ==
    IF msg.type = "Ignore" THEN Self
    ELSE LET handled == dispatch(Self, msg)
         IN  IF handled.running
             THEN [handled EXCEPT !.timer = @ - sleep_duration(@)]
             ELSE handled

\* AppModel::update on message msg, taken from the head of the channel
update(msg) ==
    LET cleared == clear_step_permission(step_permission, ticks)
    IN  /\ queue' = OutdatedQ(Tail(queue))
        /\ quiet' = quiet
        /\ IF msg.type = "Ignore"
           THEN /\ step_permission' = NoFlag
                /\ ticks' = cleared
                /\ UNCHANGED <<running, timer, song, state, rest_counter,
                               pomodoro_count, config>>
           ELSE LET handled == updated(msg)
                IN  /\ handled.pomodoro_count <= MaxPomodoros
                    /\ handled.running => BagCardinality(cleared) < MaxTicks
                    /\ running' = handled.running
                    /\ timer' = handled.timer
                    /\ song' = handled.song
                    /\ state' = handled.state
                    /\ rest_counter' = handled.rest_counter
                    /\ pomodoro_count' = handled.pomodoro_count
                    /\ config' = handled.config
                    /\ ticks' = cleared
                    /\ step_permission' = IF handled.running
                                          THEN SomeFlag(Flag(TRUE, "sleep"))
                                          ELSE NoFlag

\* the commands of the window; the file dialog's Ignore is none of them
Commands == {"Toggle", "Skip", "Renew", "Restart", "ChangeConfig"}

\* update takes a message of a widget or of the file dialog
UpdateInput ==
    /\ queue # <<>>
    /\ Head(queue) = "Input"
    /\ \E msg \in UserMsgs :
         /\ quiet => msg.type \notin Commands
         /\ update(msg)
    /\ UNCHANGED <<cycle, others>>

\* update takes a Step sent by a tick thread
UpdateStep ==
    /\ queue # <<>>
    /\ Head(queue) \in {"Step", "StaleStep"}
    /\ update(Msg("Step", "", 0, ""))
    /\ UNCHANGED <<cycle, others>>

\* a tick thread wakes from its sleep and loads its flag: a thread that reads
\* false ends
loaded(flag) == IF flag.perm THEN [flag EXCEPT !.pc = "send"]
                ELSE [flag EXCEPT !.pc = "done"]

TickLoad ==
    /\ ~aborted
    /\ \/ /\ step_permission # NoFlag
          /\ step_permission[1].pc = "sleep"
          /\ step_permission' = SomeFlag(loaded(step_permission[1]))
          /\ ticks' = ticks
       \/ \E f \in BagToSet(ticks) :
            /\ f.pc = "sleep"
            /\ ticks' = IF loaded(f).pc = "done" THEN ticks (-) SetToBag({f})
                        ELSE (ticks (-) SetToBag({f})) (+) SetToBag({loaded(f)})
            /\ step_permission' = step_permission
    /\ UNCHANGED <<running, timer, song, state, rest_counter, pomodoro_count,
                   config, queue, cycle, quiet, others>>

\* a tick thread that read true sends AppMsg::Step and ends.  History: the
\* Step is the current tick's when its flag is the one update stored last.
TickSend ==
    /\ ~aborted
    /\ Len(queue) < MaxQueue
    /\ \/ /\ step_permission # NoFlag
          /\ step_permission[1].pc = "send"
          /\ step_permission' = SomeFlag([step_permission[1] EXCEPT !.pc = "done"])
          /\ ticks' = ticks
          /\ queue' = Append(queue, "Step")
       \/ \E f \in BagToSet(ticks) :
            /\ f.pc = "send"
            /\ ticks' = ticks (-) SetToBag({f})
            /\ step_permission' = step_permission
            /\ queue' = Append(queue, "StaleStep")
    /\ UNCHANGED <<running, timer, song, state, rest_counter, pomodoro_count,
                   config, cycle, quiet, others>>

Next == User \/ UpdateInput \/ UpdateStep \/ TickLoad \/ TickSend

Spec == Init /\ [][Next]_vars

\* the user issues no command from now on
Quiet ==
    /\ ~quiet
    /\ quiet' = TRUE
    /\ UNCHANGED <<running, timer, song, state, rest_counter, pomodoro_count,
                   config, step_permission, ticks, queue, cycle, others>>

NextQuiet == Next \/ Quiet

\* every tick thread ends its sleep and runs on (the operating system's
\* scheduler) and every message in the channel is taken (the main loop)
FairSpec ==
    /\ Init /\ [][NextQuiet]_vars
    /\ WF_vars(UpdateInput) /\ WF_vars(UpdateStep)
    /\ WF_vars(TickLoad) /\ WF_vars(TickSend)

\* The rest cycle under a fixed rest_count: the program starts with any
\* rest_count the popover can set and no message edits rest_count; update
\* keeps the history variable cycle.
FixedMsgs == {msg \in UserMsgs : msg.a \notin {"rest_count", "default"}}

InitCycle ==
    /\ files = Playable
    /\ config \in {[DefaultConfig EXCEPT !.rest_count = n] : n \in RestCounts}
    /\ running = FALSE
    /\ state = "Pomodoro"
    /\ timer = duration("Pomodoro", config)
    /\ song = try_song(config.sound_path)
    /\ rest_counter = 0
    /\ pomodoro_count = 0
    /\ step_permission = NoFlag
    /\ ticks = EmptyBag
    /\ queue = <<>>
    /\ cycle = 0
    /\ quiet = FALSE
    /\ aborted = FALSE
    /\ pending = 0
    /\ unwaited = 0

counted(msg) ==
    /\ update(msg)
    /\ cycle' = IF msg.type = "Ignore" THEN cycle
                ELSE next_cycle(Self, dispatch(Self, msg), msg)
    /\ UNCHANGED others

UpdateInputFixed ==
    /\ queue # <<>>
    /\ Head(queue) = "Input"
    /\ \E msg \in FixedMsgs : counted(msg)

UpdateStepCounted ==
    /\ queue # <<>>
    /\ Head(queue) \in {"Step", "StaleStep"}
    /\ counted(Msg("Step", "", 0, ""))

NextCycle == User \/ UpdateInputFixed \/ UpdateStepCounted \/ TickLoad \/ TickSend

SpecCycle == InitCycle /\ [][NextCycle]_vars

\* Every value of AppMsg: the widgets' messages and the two Toggle(Some(_))
\* that update accepts although no widget sends them.
AppMsgs ==
    UserMsgs \cup {Msg("Toggle", "Some(true)", 0, ""),
                   Msg("Toggle", "Some(false)", 0, "")}

\* a config the user saved earlier, with a sound of their own
StoredConfig ==
    [pomodoro_time |-> 1, break_time |-> MaxDuration, rest_time |-> 1,
     rest_count |-> 1, sound_path |-> "custom.ogg"]

\* AppModel::new with the stored config, run where the user's sound can be
\* opened and the default sound (a relative path) cannot
InitWide ==
    /\ files = {"custom.ogg"}
    /\ config = StoredConfig
    /\ running = FALSE
    /\ state = "Pomodoro"
    /\ timer = duration("Pomodoro", config)
    /\ song = try_song(config.sound_path)
    /\ rest_counter = 0
    /\ pomodoro_count = 0
    /\ step_permission = NoFlag
    /\ ticks = EmptyBag
    /\ queue = <<>>
    /\ cycle = 0
    /\ quiet = FALSE
    /\ aborted = FALSE
    /\ pending = 0
    /\ unwaited = 0

\* update takes a message of any variant but Step
UpdateAny ==
    /\ queue # <<>>
    /\ Head(queue) = "Input"
    /\ \E msg \in AppMsgs : update(msg)
    /\ UNCHANGED <<cycle, others>>

NextWide == User \/ UpdateAny \/ UpdateStep \/ TickLoad \/ TickSend

SpecWide == InitWide /\ [][NextWide]_vars

\* The arithmetic of next_state that panics: in the Break | Rest arm the
\* remainder by a rest_count of 0, and in either arm a rest_counter + 1 above
\* u8::MAX (in a build with overflow checks).
next_state_panics(self) ==
    \/ self.rest_counter + 1 > U8_MAX
    \/ self.state # "Pomodoro" /\ self.config.rest_count = 0

\* the messages whose handling reaches that arithmetic
panics(self, msg) ==
    CASE msg.type = "Step" -> self.timer = 0 /\ next_state_panics(self)
      [] msg.type = "Skip" -> next_state_panics(self)
      [] OTHER             -> FALSE

\* the Config values serde_json::from_str can return for the config file:
\* any rest_count of a u8, 0 included, and any duration, 0 included
StoreConfigs ==
    {[DefaultConfig EXCEPT !.rest_count = n, !.pomodoro_time = d] :
        n \in 0..MaxRestCount, d \in {0, MaxDuration}}

\* AppModel::new with whatever config main has loaded
InitStore ==
    /\ files = Playable
    /\ config \in StoreConfigs
    /\ running = FALSE
    /\ state = "Pomodoro"
    /\ timer = duration("Pomodoro", config)
    /\ song = try_song(config.sound_path)
    /\ rest_counter = 0
    /\ pomodoro_count = 0
    /\ step_permission = NoFlag
    /\ ticks = EmptyBag
    /\ queue = <<>>
    /\ cycle = 0
    /\ quiet = FALSE
    /\ aborted = FALSE
    /\ pending = 0
    /\ unwaited = 0

\* AppModel::update where a panic ends the process: the message has been
\* taken and the pending tick cancelled (line 267) when the handler panics
update_or_panic(msg) ==
    IF panics(Self, msg)
    THEN /\ aborted' = TRUE
         /\ queue' = Tail(queue)
         /\ ticks' = clear_step_permission(step_permission, ticks)
         /\ step_permission' = NoFlag
         /\ UNCHANGED <<running, timer, song, state, rest_counter,
                        pomodoro_count, config, cycle, quiet, files, pending,
                        unwaited>>
    ELSE /\ update(msg)
         /\ UNCHANGED <<cycle, others>>

UpdateInputStore ==
    /\ ~aborted
    /\ queue # <<>>
    /\ Head(queue) = "Input"
    /\ \E msg \in UserMsgs : update_or_panic(msg)

UpdateStepStore ==
    /\ ~aborted
    /\ queue # <<>>
    /\ Head(queue) \in {"Step", "StaleStep"}
    /\ update_or_panic(Msg("Step", "", 0, ""))

NextStore ==
    User \/ UpdateInputStore \/ UpdateStepStore \/ TickLoad \/ TickSend

SpecStore == InitStore /\ [][NextStore]_vars

\* history only: update cancels a tick that has not fired when the flag it
\* takes is still true and its thread has not loaded it yet
cancels_unfired ==
    /\ step_permission # NoFlag
    /\ step_permission[1].perm
    /\ step_permission[1].pc = "sleep"

\* history only: the messages that start the countdown of a phase anew
starts_phase(msg) ==
    \/ msg.type \in {"Renew", "Restart", "Skip", "ChangeConfig"}
    \/ msg.type = "Step" /\ timer = 0

\* AppModel::update with the account of the ticks: pending is the delay of
\* the tick this update schedules (what it subtracts from timer), unwaited
\* the sum of the delays of the ticks of the current phase that were
\* cancelled before they fired
timed(msg) ==
    /\ update(msg)
    /\ unwaited' = IF starts_phase(msg) THEN 0
                   ELSE IF cancels_unfired THEN unwaited + pending
                   ELSE unwaited
    /\ pending' = IF msg.type # "Ignore" /\ dispatch(Self, msg).running
                  THEN sleep_duration(dispatch(Self, msg).timer)
                  ELSE 0
    /\ UNCHANGED <<cycle, files, aborted>>

UpdateInputTimed ==
    /\ queue # <<>>
    /\ Head(queue) = "Input"
    /\ \E msg \in UserMsgs : timed(msg)

UpdateStepTimed ==
    /\ queue # <<>>
    /\ Head(queue) \in {"Step", "StaleStep"}
    /\ timed(Msg("Step", "", 0, ""))

NextWait ==
    User \/ UpdateInputTimed \/ UpdateStepTimed \/ TickLoad \/ TickSend

SpecWait == Init /\ [][NextWait]_vars

\* ------------------------------------------------------------ the claims

\* update handles a widget message of variant t in this step
Handles(t) ==
    /\ queue # <<>>
    /\ Head(queue) = "Input"
    /\ \E msg \in UserMsgs : msg.type = t /\ update(msg)

\* update handles some message in this step
Handled == UpdateInput \/ UpdateStep

\* C1: a stale tick is never acted upon: every Step that update handles was
\* sent by the tick scheduled last, and update handled no other message
\* between the scheduling of that tick and this Step.
C1_StepIsCurrentTick == [][UpdateStep => Head(queue) = "Step"]_vars

\* the flags that are true, counted over the one the model holds and the
\* ones only threads hold
TrueFlags ==
    (IF step_permission # NoFlag /\ step_permission[1].perm THEN 1 ELSE 0)
    + BagCardinality([f \in {g \in BagToSet(ticks) : g.perm} |-> ticks[f]])

\* C2: at most one pending tick: of all the permission flags at most one is
\* true, and a true flag is the one stored in step_permission.
C2_AtMostOnePendingTick ==
    /\ TrueFlags <= 1
    /\ \A f \in BagToSet(ticks) : ~f.perm

\* C2's case: a tick is pending while a cancelled thread still sleeps on
\* its own flag
C2_Witness ==
    /\ step_permission # NoFlag
    /\ step_permission[1].perm
    /\ \E f \in BagToSet(ticks) : f.pc = "sleep"

\* C3: when update has handled a message of any variant and running is
\* true, step_permission holds a true flag and a thread that will load that
\* flag exists.
C3_RunningHasTick ==
    [][Handled => (running' =>
          /\ step_permission' # NoFlag
          /\ step_permission'[1].perm
          /\ step_permission'[1].pc = "sleep")]_vars

\* C4: the tick loop makes progress: once the engine runs and no command is
\* issued any more, remaining reaches 0 and the phase advances, again and
\* again (up to the cap on pomodoro_count).
C4_TickLoopProgress ==
    /\ [](quiet /\ running => <>(timer = 0))
    /\ [](quiet /\ running /\ state # "Pomodoro" => <>(state = "Pomodoro"))
    /\ [](quiet /\ running /\ state = "Pomodoro"
            /\ pomodoro_count < MaxPomodoros => <>(state # "Pomodoro"))

\* C5: remaining is at least 0 and at most the configured duration of the
\* current phase under the current config.
C5_TimerWithinPhase == timer >= 0 /\ timer <= duration(state, config)

\* C5's case: an edit has shortened the Pomodoro while it was the current
\* phase and the countdown has run down under the new duration
C5_Witness ==
    /\ running
    /\ state = "Pomodoro"
    /\ config.pomodoro_time < DefaultConfig.pomodoro_time
    /\ pomodoro_count = 0
    /\ rest_counter = 0
    /\ timer = 0

\* C6: 0 <= rest_counter < config.rest_count, every config having
\* rest_count >= 1.
C6_RestCounterBelowRestCount ==
    /\ config.rest_count >= 1
    /\ rest_counter >= 0
    /\ rest_counter < config.rest_count

\* C6's case: rest_count was lowered during a Break, which a rest_count of 1
\* never enters
C6_Witness == state = "Break" /\ config.rest_count = 1

\* C7: pomodoro_count never decreases and changes only by +1 in a Step that
\* finds remaining = 0 in Pomodoro; no Skip, Toggle, Renew, Restart or
\* ChangeConfig changes it.
C7_CountOnlyNaturalExpiry ==
    [][pomodoro_count' # pomodoro_count =>
          /\ pomodoro_count' = pomodoro_count + 1
          /\ UpdateStep
          /\ state = "Pomodoro"
          /\ timer = 0]_vars

\* the song is played n times by the update of this step
Plays(n) ==
    \/ UpdateStep /\ dispatch(Self, Msg("Step", "", 0, "")).played = n
    \/ /\ queue # <<>>
       /\ Head(queue) = "Input"
       /\ \E msg \in UserMsgs :
            /\ update(msg)
            /\ n = IF msg.type = "Ignore" THEN 0 ELSE dispatch(Self, msg).played

\* C8: a phase transition caused by Skip never plays the sound; a phase
\* transition plays it only when it is the natural expiry of a Pomodoro, and
\* then exactly once.
C8_SoundOnlyAtPomodoroExpiry ==
    [][/\ Handles("Skip") => Plays(0)
       /\ UpdateStep /\ state' # state =>
            IF state = "Pomodoro" THEN Plays(1) ELSE Plays(0)]_vars

C10_CounterAdvancesAtPomodoroEnd ==
    [][/\ UpdateStep /\ state = "Pomodoro" /\ state' = "Break" =>
            rest_counter' = rest_counter + 1
       /\ state = "Pomodoro" /\ state' = "Rest" => rest_counter' = 0
       /\ rest_counter # 0 /\ rest_counter' = 0 =>
            \/ state # "Rest" /\ state' = "Rest"
            \/ Handles("Restart")]_vars

\* C10 amended: rest_counter is advanced when a Break or Rest ends: the step
\* that ends a Pomodoro leaves it unchanged, a Step or Skip that ends a Break
\* or Rest makes it (rest_counter + 1) % rest_count, and it becomes 0 only at
\* such a step or at a restart (Restart, or the ChangeConfig whose new
\* rest_count is at most rest_counter).
C10_CounterAdvancesAtBreakEnd ==
    [][/\ state = "Pomodoro" /\ state' # "Pomodoro" =>
            rest_counter' = rest_counter
       /\ state # "Pomodoro" /\ (UpdateStep \/ Handles("Skip")) /\ state' # state =>
            rest_counter' = (rest_counter + 1) % config.rest_count
       /\ rest_counter # 0 /\ rest_counter' = 0 =>
            \/ /\ state # "Pomodoro" /\ state' = "Pomodoro"
               /\ UpdateStep \/ Handles("Skip")
            \/ Handles("Restart")
            \/ Handles("ChangeConfig") /\ config'.rest_count <= rest_counter]_vars

\* C10's case: the first Pomodoro has expired into a Break and rest_counter
\* is still 0
C10_Witness ==
    /\ state = "Break"
    /\ pomodoro_count = 1
    /\ rest_counter = 0
    /\ config.rest_count > 1

\* update handles a widget message of one of the variants in T in this step
HandlesAny(T) ==
    /\ queue # <<>>
    /\ Head(queue) = "Input"
    /\ \E msg \in UserMsgs : msg.type \in T /\ update(msg)

Step == Msg("Step", "", 0, "")

\* the messages that reset the countdown in this state: Renew, Restart, Skip
\* and ChangeConfig, and Step when it advances the phase
ResetMsgs ==
    {msg \in UserMsgs : msg.type \in {"Renew", "Restart", "Skip", "ChangeConfig"}}
    \cup (IF timer = 0 THEN {Step} ELSE {})

\* C11 as claimed: once update has handled Renew, Restart, Skip, ChangeConfig
\* or a Step that advances the phase, in any reachable state, running or
\* paused, remaining is exactly the configured duration of the phase the
\* engine is then in.
C11_ResetLeavesFullDuration ==
    \A msg \in ResetMsgs :
        updated(msg).timer = duration(updated(msg).state, updated(msg).config)

\* C11 amended: after such an update remaining is the configured duration of
\* the phase the engine is then in when the engine is paused, and that
\* duration less the delay min(SLEEP_STEP, duration) of the tick the same
\* update has scheduled when the engine is running.
C11_ResetLeavesDurationLessTick ==
    \A msg \in ResetMsgs :
        LET after == updated(msg)
            full == duration(after.state, after.config)
        IN  after.timer = full - (IF after.running THEN Min(SLEEP_STEP, full)
                                  ELSE 0)

\* C11's case: a running engine has entered a Rest of the longest duration
\* and its first tick, of a whole SLEEP_STEP, is still asleep
C11_Witness ==
    /\ running
    /\ state = "Rest"
    /\ config.rest_time = MaxDuration
    /\ timer = MaxDuration - SLEEP_STEP
    /\ step_permission = SomeFlag(Flag(TRUE, "sleep"))

\* C12: handling Renew in any reachable state leaves phase, rest_counter,
\* completed_pomodoro_count, running and config unchanged; only remaining
\* and the pending tick may change.
C12_RenewFrame ==
    \A msg \in {m \in UserMsgs : m.type = "Renew"} :
        LET after == updated(msg)
        IN  /\ after.state = state
            /\ after.rest_counter = rest_counter
            /\ after.pomodoro_count = pomodoro_count
            /\ after.running = running
            /\ after.config = config

\* C12's case: a paused engine in a Rest that follows a completed Pomodoro,
\* with rest_counter above 0, shows the Rest's full duration again
C12_Witness ==
    /\ ~running
    /\ state = "Rest"
    /\ rest_counter > 0
    /\ pomodoro_count = 1
    /\ timer = config.rest_time

\* C13: handling Restart in any reachable state (any phase, any
\* rest_counter, running or paused) yields phase = Pomodoro and
\* rest_counter = 0 and leaves running, completed_pomodoro_count and config
\* unchanged.
C13_RestartContract ==
    \A msg \in {m \in UserMsgs : m.type = "Restart"} :
        LET after == updated(msg)
        IN  /\ after.state = "Pomodoro"
            /\ after.rest_counter = 0
            /\ after.running = running
            /\ after.pomodoro_count = pomodoro_count
            /\ after.config = config

\* C13's case: a paused engine that has completed a Pomodoro is at the start
\* of a Pomodoro with rest_counter 0 under the largest rest_count
C13_Witness ==
    /\ ~running
    /\ state = "Pomodoro"
    /\ rest_counter = 0
    /\ pomodoro_count = MaxPomodoros
    /\ config.rest_count = MaxRestCount
    /\ timer = config.pomodoro_time

\* C14: after the edit of a ChangeConfig is applied, a new rest_count <= the
\* current rest_counter makes the engine restart (phase = Pomodoro,
\* rest_counter = 0); otherwise phase and rest_counter are unchanged; in both
\* cases the countdown restarts from the duration of the phase under the new
\* config, for every edit in every phase.
C14_ChangeConfigPolicy ==
    \A msg \in {m \in UserMsgs : m.type = "ChangeConfig"} :
        LET after == updated(msg)
            full == duration(after.state, after.config)
        IN  /\ IF after.config.rest_count <= rest_counter
               THEN after.state = "Pomodoro" /\ after.rest_counter = 0
               ELSE after.state = state /\ after.rest_counter = rest_counter
            /\ after.timer = full - (IF after.running THEN Min(SLEEP_STEP, full)
                                     ELSE 0)

\* C14's case: rest_count is 1 and a running engine with a completed
\* Pomodoro is at the start of a Pomodoro with rest_counter 0
C14_Witness ==
    /\ running
    /\ config.rest_count = 1
    /\ state = "Pomodoro"
    /\ rest_counter = 0
    /\ pomodoro_count = 1
    /\ timer = config.pomodoro_time - Min(SLEEP_STEP, config.pomodoro_time)
    /\ step_permission = SomeFlag(Flag(TRUE, "sleep"))

\* C15: when the edit of a ChangeConfig changes sound_path and try_song
\* returns None for the new path, then after the command config.sound_path
\* is what it was before the edit and the loaded song is unchanged, while
\* every other field the edit changed keeps its new value.  (Saving the
\* config assigns no field, whether it fails or not.)
C15_SoundRollback ==
    \A msg \in {m \in AppMsgs : m.type = "ChangeConfig"} :
        LET edited == apply_edit(config, msg)
        IN  edited.sound_path # config.sound_path
              /\ try_song(edited.sound_path) = None
            => /\ updated(msg).config =
                    [edited EXCEPT !.sound_path = config.sound_path]
               /\ updated(msg).song = song

\* C15's case: the reset to defaults has replaced every field of the stored
\* config but sound_path, whose default cannot be opened
C15_Witness ==
    /\ config = [DefaultConfig EXCEPT !.sound_path = StoredConfig.sound_path]
    /\ song = StoredConfig.sound_path

\* C16: handling Toggle(Some(b)) sets running to b and handling Toggle(None)
\* negates running; phase, rest_counter, completed_pomodoro_count and config
\* are unchanged, and when the result is paused remaining is unchanged too.
C16_ToggleContract ==
    \A msg \in {m \in AppMsgs : m.type = "Toggle"} :
        LET after == updated(msg)
        IN  /\ after.running = (CASE msg.a = "Some(true)"  -> TRUE
                                  [] msg.a = "Some(false)" -> FALSE
                                  [] msg.a = "None"        -> ~running)
            /\ after.state = state
            /\ after.rest_counter = rest_counter
            /\ after.pomodoro_count = pomodoro_count
            /\ after.config = config
            /\ ~after.running => after.timer = timer

\* C16's case: the engine has been paused in the middle of a Break
C16_Witness ==
    /\ ~running
    /\ state = "Break"
    /\ timer > 0
    /\ timer < config.break_time

\* C17: the engine never aborts: for every Config the configuration store can
\* supply at startup or an edit can produce, and every sequence of messages,
\* update reaches no panic in its own arithmetic (no remainder by zero, no
\* u8 overflow, no underflow of the timer).
C17_NeverAborts == ~aborted /\ timer >= 0

\* C18: within one phase the total subtracted from remaining never exceeds
\* the total delay of the ticks that fired uncancelled plus the delay of the
\* one pending tick: no tick that was cancelled before it fired leaves its
\* decrement applied.  (Every tick's delay is subtracted when it is
\* scheduled, so the excess is the sum of the cancelled ticks' delays.)
C18_NoUnwaitedDecrement == unwaited = 0

\* the number of times the update of a Step plays the song in this state
StepPlays == updated(Step).played

\* C19: a Step handled while remaining > 0 changes neither phase,
\* rest_counter nor completed_pomodoro_count and plays no sound; a Step
\* handled while remaining = 0 performs exactly one phase transition
\* (Pomodoro to Break or Rest, or Break or Rest to Pomodoro), never two.
C19_StepConditionalOnExpiry ==
    LET after == updated(Step)
    IN  IF timer > 0
        THEN /\ after.state = state
             /\ after.rest_counter = rest_counter
             /\ after.pomodoro_count = pomodoro_count
             /\ StepPlays = 0
        ELSE \/ state = "Pomodoro" /\ after.state \in {"Break", "Rest"}
             \/ state \in {"Break", "Rest"} /\ after.state = "Pomodoro"

\* C19's case: a Step of an earlier tick is about to be handled in a Break
\* whose countdown is not at 0
C19_Witness ==
    /\ queue # <<>>
    /\ Head(queue) = "StaleStep"
    /\ state = "Break"
    /\ timer > 0

\* C20: a paused engine never moves on its own: while running is false,
\* until update handles the next Toggle, Skip, Renew, Restart or
\* ChangeConfig, phase, remaining, rest_counter and
\* completed_pomodoro_count do not change and no sound is played, whatever
\* Step a tick thread has sent.
C20_PausedNeverMoves ==
    [][~running /\ ~HandlesAny(Commands) =>
         /\ UNCHANGED <<state, timer, rest_counter, pomodoro_count>>
         /\ UpdateStep => StepPlays = 0]_vars
====
